---- MODULE Spec2Model ----
(***************************************************************************)
(* Model of cpp-mvs: FlexibleArrayUnchecked / FlexibleArrayChecked, a      *)
(* header followed by trailing element slots in one memory block.          *)
(*                                                                         *)
(* The specifications of this module:                                      *)
(*   Spec                the ownership state machine (instances, blocks,   *)
(*                       header lifetime, allocator calls);                *)
(*   ProjectSpec         the client around the unchecked project_temporary;*)
(*   CheckedProjectSpec  the client around the checked project_temporary;  *)
(*   LayoutSpec          the layout arithmetic (align_up, elements_offset, *)
(*                       storage_size_for, aligned_alloca) on bounded type *)
(*                       pairs, capacities and addresses;                  *)
(*   CapacitySpec        storage_size_for over the whole range of Int;     *)
(*   AlignSpec           align_up over every word and alignment.           *)
(***************************************************************************)
EXTENDS Integers, Sequences, FiniteSets, TLC

\* ------------------------------------------------------------------ bounds
\* Number of instance slots a client keeps at once.
NumInst == 2
\* Number of blocks the allocator hands out in one behaviour.
MaxBlocks == 2
\* Largest capacity (element count) requested.
MaxCap == 1
\* Element values a caller writes are 1..MaxVal (0 is an unwritten slot).
MaxVal == 1
\* Width of size_t / uintptr_t in the model (64 in the build).
WordBits == 8
\* Alignments are 2^0 .. 2^MaxAlignLog.
MaxAlignLog == 4
\* sizeof of a modelled type is at most MaxSize bytes.
MaxSize == 16
\* Largest element count used in the layout specification.
MaxCount == 3
\* Addresses alloca may return are 1..MaxAddr.
MaxAddr == 33

\* --------------------------------------------------------------- constants
Null == 0
Tmp == 0
Tmp2 == -1
\* The local flexible_array of a project_temporary call that the consumer
\* does not see.
ProjLocal == -2
NoHeader == -1
\* Outcome of a read through a null pointer that faults.
Crash == -2
\* No address was returned.
NoAddr == [block |-> -1, offset |-> -1]

Inst == 1..NumInst
Slots == (-2)..NumInst
Block == 1..MaxBlocks

VARIABLES
    kind,       \* kind[i]: "none" (no object), "unchecked" or "checked"
    storage,    \* storage[i]: the block an instance points to, or Null
    hdr,        \* hdr[b]: count reported by the live header of b, or NoHeader
    elems,      \* elems[b]: the element slots of b (0 = never written)
    log,        \* log[b]: allocator and header-lifetime events of b, in order
    nextBlock,  \* number of blocks allocated so far
    raw,        \* raw block addresses held by the caller after leak_storage
    last,       \* the operation performed by the latest step (history)
    lay,        \* state of the layout specification
    req,        \* req[b]: size and alignment requested for block b
    proc,       \* the process: running, or exited after a diagnostic
    proj        \* the project_temporary call in progress, if any

vars == <<kind, storage, hdr, elems, log, nextBlock, raw, last, lay, req,
          proc, proj>>
ownVars == <<kind, storage, hdr, elems, log, nextBlock, raw, last, req, proc,
             proj>>

\* The instantiation used by the client: StandardHeader and int.
H0 == [size |-> 8, align |-> 8]
E0 == [size |-> 4, align |-> 4]

\* ------------------------------------------------------ layout arithmetic
RECURSIVE Pow2(_)
Pow2(k) == IF k = 0 THEN 1 ELSE 2 * Pow2(k - 1)

Word == Pow2(WordBits)

RECURSIVE BitAnd(_, _)
BitAnd(x, y) ==
    IF x = 0 \/ y = 0 THEN 0
    ELSE (x % 2) * (y % 2) + 2 * BitAnd(x \div 2, y \div 2)

BitNot(x) == Word - 1 - x

Max(a, b) == IF a >= b THEN a ELSE b

\* Variant of align_up that clears the low bits without adding first.
align_up_truncating(n, align) ==
    BitAnd(n % Word, BitNot((align + Word - 1) % Word))

align_up(n, align) ==
    BitAnd((n + align + Word - 1) % Word, BitNot((align + Word - 1) % Word))

\* Variant of elements_offset that rounds to the header's own alignment.
elements_offset_header_align(H, E) == align_up(H.size, H.align)

elements_offset(H, E) == align_up(H.size, E.align)

\* Variant of storage_size_for without the final rounding.
storage_size_for_no_round(H, E, element_count) ==
    (elements_offset(H, E) + E.size * (element_count % Word)) % Word

\* Variant of storage_size_for that rounds to the element's alignment.
storage_size_for_element_align(H, E, element_count) ==
    align_up((elements_offset(H, E) + E.size * (element_count % Word)) % Word,
             E.align)

storage_size_for(H, E, element_count) ==
    align_up((elements_offset(H, E) + E.size * (element_count % Word)) % Word,
             H.align)

\* Variant of the macro that asks the scope for size bytes only.
alloca_request_exact(size, alignment) == size

\* The byte count aligned_alloca(size, alignment) passes to alloca.
alloca_request(size, alignment) == size + alignment

\* aligned_alloca(size, alignment), p being the address alloca returned.
aligned_alloca(p, size, alignment) == align_up(p, alignment)

elements_start(base, H, E) == (base + elements_offset(H, E)) % Word

element_address(base, H, E, i) == (elements_start(base, H, E) + i * E.size) % Word

\* ------------------------------------------------- memory and its effects
\* The part of the state that the library's code reads and writes.
Mem == [storage |-> storage, hdr |-> hdr, elems |-> elems, log |-> log,
        nextBlock |-> nextBlock, req |-> req]

\* Detail::aligned_alloc(size, align): a fresh block.
aligned_alloc(M, size, align) ==
    LET b == M.nextBlock + 1 IN
    [M EXCEPT !.nextBlock = b,
              !.log[b] = <<"alloc">>,
              !.req[b] = [size |-> size, align |-> align]]

\* Detail::aligned_free
aligned_free(M, b) == [M EXCEPT !.log[b] = Append(@, "free")]

\* std::construct_at(place, header): starts the header's lifetime in block b.
construct_at(M, b, h) ==
    [M EXCEPT !.hdr[b] = h, !.log[b] = Append(@, "construct")]

\* std::destroy_at(header): ends the header's lifetime in block b.
destroy_at(M, b) ==
    [M EXCEPT !.hdr[b] = NoHeader, !.log[b] = Append(@, "destroy")]

\* ----------------------------------------------- FlexibleArrayUnchecked
\* explicit FlexibleArrayUnchecked(char* owned_storage)
ctor_from_storage(M, self, b) == [M EXCEPT !.storage[self] = b]

\* header(): the address of the header is the address of the block.
header(M, self) == M.storage[self]

\* element_address(i): elements_start() + i, an address inside the block the
\* instance points to (with a null storage, that offset from null).
unchecked_element_address(M, self, i) ==
    [block |-> M.storage[self],
     offset |-> elements_offset(H0, E0) + i * E0.size]

\* is_valid(): whether the instance owns a block.
is_valid(M, self) == M.storage[self] # Null

\* create_empty(): an instance owning no block.
create_empty(M, self) == ctor_from_storage(M, self, Null)

\* The slots of block b that the caller asked for, none of them written.
slots_for(M, b, capacity) ==
    [M EXCEPT !.elems[b] = [k \in 1..Max(capacity, 0) |-> 0]]

\* Variant that hands out an instance without a block when no element is
\* asked for.
with_header_initialized_by_empty_zero(M, self, capacity, h) ==
    IF capacity = 0
    THEN create_empty(M, self)
    ELSE LET b  == M.nextBlock + 1
             M1 == aligned_alloc(M, storage_size_for(H0, E0, capacity),
                                 Max(H0.align, E0.align))
             M2 == construct_at(slots_for(M1, b, capacity), b, h)
         IN  ctor_from_storage(M2, self, b)

\* Variant that returns the instance without having run the initializer.
with_header_initialized_by_no_init(M, self, capacity, h) ==
    LET b  == M.nextBlock + 1
        M1 == aligned_alloc(M, storage_size_for(H0, E0, capacity),
                            Max(H0.align, E0.align))
    IN  ctor_from_storage(slots_for(M1, b, capacity), self, b)

with_header_initialized_by(M, self, capacity, h) ==
    LET b  == M.nextBlock + 1
        M1 == aligned_alloc(M, storage_size_for(H0, E0, capacity),
                            Max(H0.align, E0.align))
        M2 == construct_at(slots_for(M1, b, capacity), b, h)
    IN  ctor_from_storage(M2, self, b)

with_header(M, self, capacity, h) ==
    with_header_initialized_by(M, self, capacity, h)

\* Variant of the destructor that ends the header's lifetime but keeps the block.
dtor_no_free(M, self) ==
    IF M.storage[self] # Null
    THEN destroy_at(M, header(M, self))
    ELSE M

\* Variant of the destructor that releases the block before the header.
dtor_free_first(M, self) ==
    IF M.storage[self] # Null
    THEN destroy_at(aligned_free(M, M.storage[self]), header(M, self))
    ELSE M

\* ~FlexibleArrayUnchecked()
dtor(M, self) ==
    IF M.storage[self] # Null
    THEN aligned_free(destroy_at(M, header(M, self)), M.storage[self])
    ELSE M

\* Variant of leak_storage that returns the block but keeps pointing to it.
leak_storage_no_reset(M, self) == M

\* Variant of leak_storage that ends the header's lifetime on the way out.
leak_storage_destroys(M, self) ==
    IF M.storage[self] # Null
    THEN [destroy_at(M, header(M, self)) EXCEPT !.storage[self] = Null]
    ELSE M

\* leak_storage(): std::exchange(storage, nullptr); the result is the old value.
leak_storage(M, self) == [M EXCEPT !.storage[self] = Null]

\* Variant of the move constructor that leaves the source pointing to the block.
move_ctor_no_reset(M, self, other) ==
    [M EXCEPT !.storage = [@ EXCEPT ![self] = M.storage[other]]]

\* FlexibleArrayUnchecked(FlexibleArrayUnchecked&& other)
move_ctor(M, self, other) ==
    [M EXCEPT !.storage = [@ EXCEPT ![self] = M.storage[other],
                                    ![other] = Null]]

\* Variant of move assignment without the self-assignment test.
move_assign_no_self_check(M, self, other) ==
    LET M1 == IF M.storage[self] # Null
              THEN aligned_free(destroy_at(M, header(M, self)), M.storage[self])
              ELSE M
        M2 == [M1 EXCEPT !.storage[self] = M1.storage[other]]
    IN  [M2 EXCEPT !.storage[other] = Null]

\* Variant of move assignment that takes the source's block over first and
\* releases what it then holds.
move_assign_release_after(M, self, other) ==
    IF self = other THEN M
    ELSE LET M1 == [M EXCEPT !.storage = [@ EXCEPT ![self] = M.storage[other],
                                                   ![other] = Null]]
         IN  IF M1.storage[self] # Null
             THEN aligned_free(destroy_at(M1, header(M1, self)),
                               M1.storage[self])
             ELSE M1

\* operator=(FlexibleArrayUnchecked&& other)
move_assign(M, self, other) ==
    IF self = other THEN M
    ELSE LET M1 == IF M.storage[self] # Null
                   THEN aligned_free(destroy_at(M, header(M, self)),
                                     M.storage[self])
                   ELSE M
         IN  [M1 EXCEPT !.storage = [@ EXCEPT ![self] = M.storage[other],
                                              ![other] = Null]]

\* Variant of swap that copies b's block into a and leaves b as it was.
swap_copy(M, a, b) ==
    [M EXCEPT !.storage = [@ EXCEPT ![a] = M.storage[b]]]

\* swap(a, b): std::swap(a.storage, b.storage)
swap(M, a, b) ==
    [M EXCEPT !.storage = [@ EXCEPT ![a] = M.storage[b], ![b] = M.storage[a]]]

\* ------------------------------------------------- FlexibleArrayChecked
\* FlexibleArrayChecked(FlexibleArrayUnchecked&& unchecked)
checked_ctor(M, self, unchecked) == move_ctor(M, self, unchecked)

\* The factories build an unchecked temporary, wrap it, and the temporary
\* is destroyed at the end of the full expression.
checked_with_header_initialized_by(M, self, capacity, h) ==
    LET M1 == with_header_initialized_by(M, Tmp, capacity, h)
        M2 == checked_ctor(M1, self, Tmp)
    IN  dtor(M2, Tmp)

checked_with_header(M, self, capacity, h) ==
    checked_with_header_initialized_by(M, self, capacity, h)

\* Variant of create_empty that owns a zero-capacity allocation.
checked_create_empty_allocates(M, self) ==
    checked_with_header(M, self, 0, 0)

checked_create_empty(M, self) ==
    LET M1 == create_empty(M, Tmp)
        M2 == checked_ctor(M1, self, Tmp)
    IN  dtor(M2, Tmp)

checked_is_valid(M, self) == is_valid(M, self)

\* capacity(): unchecked_storage.header()->trailing_element_count()
capacity(M, self) == M.hdr[header(M, self)]

\* header() of the checked view: unchecked_storage.header()
checked_header(M, self) == header(M, self)

\* precondition(p, message): prints the diagnostic and quick_exits unless p.
precondition(p, message) ==
    IF p THEN [state |-> "running", diag |-> ""]
    ELSE [state |-> "exited", diag |-> message]

\* The count that capacity() obtains: the header's, when there is a header
\* to read; otherwise the read is undefined (a null storage may fault, and
\* any count may come back).
CapacityReads(M, self) ==
    IF is_valid(M, self)
    THEN IF M.hdr[header(M, self)] # NoHeader
         THEN {capacity(M, self)}
         ELSE (-1)..MaxCap
    ELSE {Crash} \cup ((-1)..MaxCap)

\* Variant of the bounds check that uses the slot count fixed at creation.
in_bounds_cached(M, self, i, count) ==
    /\ i >= 0
    /\ M.storage[self] # Null
    /\ i < Len(M.elems[M.storage[self]])

\* i >= 0 && i < self.capacity(), count being what capacity() returned.
in_bounds(M, self, i, count) == i >= 0 /\ i < count

\* element_address(i) of the checked view, count being what capacity()
\* returned: the process state afterwards and the address returned, if any.
checked_element_address(M, self, i, count) ==
    LET P == precondition(in_bounds(M, self, i, count), "Index out of bounds")
    IN  [proc |-> P,
         addr |-> IF P.state = "running"
                  THEN unchecked_element_address(M, self, i)
                  ELSE NoAddr]

\* Variant that copies the pointer and leaves the view holding it.
extract_storage_keeps(M, result, self) == move_ctor_no_reset(M, result, self)

\* extract_storage(): return std::move(unchecked_storage)
extract_storage(M, result, self) == move_ctor(M, result, self)

\* FlexibleArrayChecked again{self.extract_storage()}: the extracted
\* temporary is wrapped by the converting constructor and destroyed at the
\* end of the full expression.
rewrap(M, result, self) ==
    LET M1 == extract_storage(M, Tmp, self)
        M2 == checked_ctor(M1, result, Tmp)
    IN  dtor(M2, Tmp)

\* Defaulted move constructor, move assignment and destructor act on the
\* only member, unchecked_storage.
checked_move_ctor(M, self, other) == move_ctor(M, self, other)
checked_move_assign(M, self, other) == move_assign(M, self, other)
checked_dtor(M, self) == dtor(M, self)

\* swap(FlexibleArrayChecked&, FlexibleArrayChecked&)
checked_swap(M, a, b) == swap(M, a, b)

\* ---------------------------------------------------- project_temporary
\* alloca(size): a fresh block in the caller's frame.
alloca(M, size) ==
    LET b == M.nextBlock + 1 IN
    [M EXCEPT !.nextBlock = b,
              !.log[b] = <<"alloca">>,
              !.req[b] = [size |-> size, align |-> 0]]

\* project_temporary up to the call of the consumer: the storage is
\* obtained from the scope and wrapped in the local flexible_array.
project_temporary_begin(M, self, element_count) ==
    LET storage_size == storage_size_for(H0, E0, element_count)
        b  == M.nextBlock + 1
        M1 == alloca(M, alloca_request(storage_size, H0.align))
    IN  ctor_from_storage(slots_for(M1, b, element_count), self, b)

\* Variant of the end of project_temporary that leaves the clean-up to the
\* destructor of flexible_array.
project_temporary_end_by_dtor(M, self) == dtor(M, self)

\* project_temporary after the consumer returned, flexible_array pointing
\* to a block: std::destroy_at(flexible_array.leak_storage()), then the
\* destructor of flexible_array.
project_temporary_end(M, self) ==
    LET b  == M.storage[self]
        M1 == leak_storage(M, self)
        M2 == destroy_at(M1, b)
    IN  dtor(M2, self)

\* Variant of the consumer wrapper's tail that hands nothing back.
checked_project_restore_skipped(M, unchecked, checked) == M

\* The wrapper FlexibleArrayChecked::project_temporary passes as consumer,
\* after the caller's consumer returned: unchecked = checked.extract_storage(),
\* the extracted temporary being destroyed at the end of the statement.
checked_project_restore(M, unchecked, checked) ==
    LET M1 == extract_storage(M, Tmp, checked)
        M2 == move_assign(M1, unchecked, Tmp)
    IN  dtor(M2, Tmp)

\* FlexibleArrayChecked::project_temporary up to the call of the caller's
\* consumer: the unchecked projection, then checked{std::move(unchecked)}.
checked_project_temporary_begin(M, unchecked, checked, element_count) ==
    checked_ctor(project_temporary_begin(M, unchecked, element_count),
                 checked, unchecked)

\* ----------------------------------------------------------------- Array
\* Array::create_empty(capacity) after its precondition: the checked storage
\* is a temporary that the Array's constructor moves into its member.
array_create_empty(M, self, cap) ==
    LET M1 == IF cap = 0
              THEN checked_create_empty(M, Tmp2)
              ELSE checked_with_header(M, Tmp2, cap, cap)
        M2 == checked_move_ctor(M1, self, Tmp2)
    IN  checked_dtor(M2, Tmp2)

\* ------------------------------------------------------------- the client
\* The client program: it creates instances in the slots, moves, swaps and
\* destroys them, writes elements, and cleans up leaked blocks by hand.
LayIdle == [pc |-> "idle", H |-> [size |-> 1, align |-> 1],
            E |-> [size |-> 1, align |-> 1], count |-> 0, p |-> 0,
            size |-> 0, align |-> 0, base |-> 0, got |-> 0]

ProjIdle == [pc |-> "idle", slot |-> 0, block |-> 0, calls |-> 0]

OwnInit ==
    /\ kind = [i \in Inst |-> "none"]
    /\ storage = [i \in Slots |-> Null]
    /\ hdr = [b \in Block |-> NoHeader]
    /\ elems = [b \in Block |-> <<>>]
    /\ log = [b \in Block |-> <<>>]
    /\ nextBlock = 0
    /\ raw = {}
    /\ last = [op |-> "init", self |-> 0, other |-> 0, ret |-> 0, held |-> 0,
               arg |-> 0, addr |-> NoAddr]
    /\ req = [b \in Block |-> [size |-> 0, align |-> 0]]
    /\ proc = [state |-> "running", diag |-> ""]
    /\ proj = ProjIdle

Init == OwnInit /\ lay = LayIdle

Live(i) == kind[i] # "none"
HasFree == \E i \in Inst : ~Live(i)
\* A new object is placed in the lowest unused slot.
FreeSlot == CHOOSE i \in Inst : ~Live(i) /\ \A j \in Inst : j < i => Live(j)

Commit(M) ==
    /\ storage' = M.storage
    /\ hdr' = M.hdr
    /\ elems' = M.elems
    /\ log' = M.log
    /\ nextBlock' = M.nextBlock
    /\ req' = M.req

Running == proc.state = "running"

\* last records the operation, its operands, its result and the block that
\* self held when the operation started.
DidArg(op, self, other, ret, arg) ==
    /\ Running
    /\ last' = [op |-> op, self |-> self, other |-> other, ret |-> ret,
                held |-> storage[self], arg |-> arg, addr |-> NoAddr]
    /\ UNCHANGED <<raw, lay, proc, proj>>

Did(op, self, other, ret) == DidArg(op, self, other, ret, 0)

Born(i, k) == kind' = [kind EXCEPT ![i] = k]

\* The object in slot i is gone; the slot holds nothing.
Gone(M, i) ==
    /\ Commit([M EXCEPT !.storage[i] = Null])
    /\ kind' = [kind EXCEPT ![i] = "none"]

UncheckedWithHeader ==
    \E cap \in (-1)..MaxCap : \E h \in 0..Max(cap, 0) :
        /\ HasFree /\ nextBlock < MaxBlocks
        /\ Commit(with_header(Mem, FreeSlot, cap, h))
        /\ Born(FreeSlot, "unchecked")
        /\ DidArg("with_header", FreeSlot, 0, 0, cap)

UncheckedWithHeaderInitializedBy ==
    \E cap \in (-1)..MaxCap : \E h \in 0..Max(cap, 0) :
        /\ HasFree /\ nextBlock < MaxBlocks
        /\ Commit(with_header_initialized_by(Mem, FreeSlot, cap, h))
        /\ Born(FreeSlot, "unchecked")
        /\ DidArg("with_header_initialized_by", FreeSlot, 0, 0, cap)

CheckedWithHeader ==
    \E cap \in (-1)..MaxCap : \E h \in 0..Max(cap, 0) :
        /\ HasFree /\ nextBlock < MaxBlocks
        /\ Commit(checked_with_header(Mem, FreeSlot, cap, h))
        /\ Born(FreeSlot, "checked")
        /\ DidArg("with_header", FreeSlot, 0, 0, cap)

CheckedWithHeaderInitializedBy ==
    \E cap \in (-1)..MaxCap : \E h \in 0..Max(cap, 0) :
        /\ HasFree /\ nextBlock < MaxBlocks
        /\ Commit(checked_with_header_initialized_by(Mem, FreeSlot, cap, h))
        /\ Born(FreeSlot, "checked")
        /\ DidArg("with_header_initialized_by", FreeSlot, 0, 0, cap)

UncheckedCreateEmpty ==
    /\ HasFree
    /\ Commit(create_empty(Mem, FreeSlot))
    /\ Born(FreeSlot, "unchecked")
    /\ Did("create_empty", FreeSlot, 0, 0)

CheckedCreateEmpty ==
    /\ HasFree
    /\ Commit(checked_create_empty(Mem, FreeSlot))
    /\ Born(FreeSlot, "checked")
    /\ Did("create_empty", FreeSlot, 0, 0)

\* Array<int>::create_empty(capacity); the slot holds the Array's only
\* member, its checked storage.
ArrayCreateEmpty ==
    \E cap \in (-1)..MaxCap :
        LET P == precondition(cap >= 0, "Precondition failure.") IN
        /\ HasFree /\ (cap > 0 => nextBlock < MaxBlocks)
        /\ IF P.state = "running"
           THEN /\ Commit(array_create_empty(Mem, FreeSlot, cap))
                /\ Born(FreeSlot, "checked")
                /\ DidArg("array_create_empty", FreeSlot, 0, 0, cap)
           ELSE /\ Running
                /\ proc' = P
                /\ last' = [op |-> "array_create_empty", self |-> FreeSlot,
                            other |-> 0, ret |-> 0, held |-> Null,
                            arg |-> cap, addr |-> NoAddr]
                /\ UNCHANGED <<kind, storage, hdr, elems, log, nextBlock,
                               raw, lay, req, proj>>

\* FlexibleArrayUnchecked::project_temporary(element_count, consumer) is
\* called: it runs up to the call of the consumer, whose steps are the
\* client's steps that follow.
ProjectBegin ==
    \E element_count \in 0..MaxCap :
        /\ proj.pc = "idle"
        /\ HasFree /\ nextBlock < MaxBlocks
        /\ Running
        /\ Commit(project_temporary_begin(Mem, FreeSlot, element_count))
        /\ Born(FreeSlot, "unchecked")
        /\ proj' = [pc |-> "consumer", slot |-> FreeSlot,
                    block |-> nextBlock + 1, calls |-> proj.calls + 1]
        /\ last' = [op |-> "project_begin", self |-> FreeSlot, other |-> 0,
                    ret |-> 0, held |-> Null, arg |-> element_count,
                    addr |-> NoAddr]
        /\ UNCHANGED <<raw, lay, proc>>

\* std::construct_at(fa.header(), n): the consumer starts the header's
\* lifetime in the projected block.
ConstructHeader ==
    \E a \in Inst : \E n \in 0..MaxCap :
        /\ Live(a) /\ is_valid(Mem, a)
        /\ hdr[storage[a]] = NoHeader
        /\ log[storage[a]] = <<"alloca">>
        /\ n <= Len(elems[storage[a]])
        /\ Commit(construct_at(Mem, header(Mem, a), n))
        /\ UNCHANGED kind
        /\ DidArg("construct_header", a, 0, 0, n)

\* The consumer returns result; project_temporary ends the header's
\* lifetime, returns result, and its local flexible_array is destroyed.
\* With a null flexible_array the destroy_at is undefined: it does nothing
\* or the process faults.
ProjectEnd ==
    \E result \in 0..MaxVal : \E fault \in BOOLEAN :
        /\ proj.pc = "consumer"
        /\ Running
        /\ fault => ~is_valid(Mem, proj.slot)
        /\ IF is_valid(Mem, proj.slot)
           THEN Gone(project_temporary_end(Mem, proj.slot), proj.slot)
           ELSE Gone(Mem, proj.slot)
        /\ proc' = IF fault THEN [state |-> "crashed", diag |-> ""] ELSE proc
        /\ proj' = ProjIdle
        /\ last' = [op |-> "project_temporary", self |-> proj.slot,
                    other |-> 0, ret |-> IF fault THEN 0 ELSE result,
                    held |-> storage[proj.slot], arg |-> result,
                    addr |-> NoAddr]
        /\ UNCHANGED <<raw, lay>>

\* FlexibleArrayChecked::project_temporary(element_count, consumer) is
\* called: it runs up to the call of the caller's consumer on the view.
CheckedProjectBegin ==
    \E element_count \in 0..MaxCap :
        /\ proj.pc = "idle"
        /\ HasFree /\ nextBlock < MaxBlocks
        /\ Running
        /\ Commit(checked_project_temporary_begin(Mem, ProjLocal, FreeSlot,
                                                  element_count))
        /\ Born(FreeSlot, "checked")
        /\ proj' = [pc |-> "checked_consumer", slot |-> FreeSlot,
                    block |-> nextBlock + 1, calls |-> proj.calls + 1]
        /\ last' = [op |-> "checked_project_begin", self |-> FreeSlot,
                    other |-> 0, ret |-> 0, held |-> Null,
                    arg |-> element_count, addr |-> NoAddr]
        /\ UNCHANGED <<raw, lay, proc>>

\* The caller's consumer returns result: the wrapper restores the
\* projection and returns, the view is destroyed, and the unchecked
\* project_temporary ends the header's lifetime and returns result.  With
\* nothing restored the destroy_at is undefined: it does nothing or the
\* process faults.
CheckedProjectEnd ==
    \E result \in 0..MaxVal : \E fault \in BOOLEAN :
        LET R == checked_project_restore(Mem, ProjLocal, proj.slot)
            D == checked_dtor(R, proj.slot)
        IN  /\ proj.pc = "checked_consumer"
            /\ Running
            /\ fault => ~is_valid(D, ProjLocal)
            /\ IF is_valid(D, ProjLocal)
               THEN Gone(project_temporary_end(D, ProjLocal), proj.slot)
               ELSE Gone(D, proj.slot)
            /\ proc' = IF fault THEN [state |-> "crashed", diag |-> ""]
                                ELSE proc
            /\ proj' = ProjIdle
            /\ last' = [op |-> "checked_project_temporary",
                        self |-> proj.slot, other |-> 0,
                        ret |-> IF fault THEN 0 ELSE result,
                        held |-> storage[proj.slot], arg |-> result,
                        addr |-> NoAddr]
            /\ UNCHANGED <<raw, lay>>

\* auto b = std::move(a);
UncheckedMoveConstruct ==
    \E a \in Inst :
        /\ kind[a] = "unchecked" /\ HasFree
        /\ Commit(move_ctor(Mem, FreeSlot, a))
        /\ Born(FreeSlot, "unchecked")
        /\ Did("move_ctor", FreeSlot, a, 0)

CheckedMoveConstruct ==
    \E a \in Inst :
        /\ kind[a] = "checked" /\ HasFree
        /\ Commit(checked_move_ctor(Mem, FreeSlot, a))
        /\ Born(FreeSlot, "checked")
        /\ Did("move_ctor", FreeSlot, a, 0)

\* b = std::move(a);  (a and b may be the same object)
UncheckedMoveAssign ==
    \E b \in Inst : \E a \in Inst :
        /\ kind[a] = "unchecked" /\ kind[b] = "unchecked"
        /\ Commit(move_assign(Mem, b, a))
        /\ UNCHANGED kind
        /\ Did("move_assign", b, a, 0)

CheckedMoveAssign ==
    \E b \in Inst : \E a \in Inst :
        /\ kind[a] = "checked" /\ kind[b] = "checked"
        /\ Commit(checked_move_assign(Mem, b, a))
        /\ UNCHANGED kind
        /\ Did("move_assign", b, a, 0)

UncheckedSwap ==
    \E a \in Inst : \E b \in Inst :
        /\ kind[a] = "unchecked" /\ kind[b] = "unchecked"
        /\ Commit(swap(Mem, a, b))
        /\ UNCHANGED kind
        /\ Did("swap", a, b, 0)

CheckedSwap ==
    \E a \in Inst : \E b \in Inst :
        /\ kind[a] = "checked" /\ kind[b] = "checked"
        /\ Commit(checked_swap(Mem, a, b))
        /\ UNCHANGED kind
        /\ Did("swap", a, b, 0)

\* auto* raw = fa.leak_storage();
LeakStorage ==
    \E a \in Inst :
        /\ kind[a] = "unchecked"
        /\ Commit(leak_storage(Mem, a))
        /\ UNCHANGED kind
        /\ raw' = raw \cup ({storage[a]} \ {Null})
        /\ last' = [op |-> "leak_storage", self |-> a, other |-> 0,
                    ret |-> storage[a], held |-> storage[a], arg |-> 0,
                    addr |-> NoAddr]
        /\ Running
        /\ UNCHANGED <<lay, proc, proj>>

\* auto unchecked = fa.extract_storage();
ExtractStorage ==
    \E a \in Inst :
        /\ kind[a] = "checked" /\ HasFree
        /\ Commit(extract_storage(Mem, FreeSlot, a))
        /\ Born(FreeSlot, "unchecked")
        /\ Did("extract_storage", FreeSlot, a, 0)

\* FlexibleArrayChecked again{a.extract_storage()};
CheckedRewrap ==
    \E a \in Inst :
        /\ kind[a] = "checked" /\ HasFree
        /\ Commit(rewrap(Mem, FreeSlot, a))
        /\ Born(FreeSlot, "checked")
        /\ Did("rewrap", FreeSlot, a, 0)

\* The object goes out of scope.
UncheckedDestroy ==
    \E a \in Inst :
        /\ kind[a] = "unchecked"
        /\ ~(proj.pc = "consumer" /\ proj.slot = a)
        /\ Gone(dtor(Mem, a), a)
        /\ Did("dtor", a, 0, 0)

CheckedDestroy ==
    \E a \in Inst :
        /\ kind[a] = "checked"
        /\ ~(proj.pc = "checked_consumer" /\ proj.slot = a)
        /\ Gone(checked_dtor(Mem, a), a)
        /\ Did("dtor", a, 0, 0)

\* std::destroy_at(reinterpret_cast<Header*>(raw)); Detail::aligned_free(raw);
ManualCleanup ==
    \E b \in raw :
        /\ log[b][1] = "alloc"
        /\ Commit(aligned_free(destroy_at(Mem, b), b))
        /\ UNCHANGED kind
        /\ raw' = raw \ {b}
        /\ last' = [op |-> "manual_cleanup", self |-> 0, other |-> 0,
                    ret |-> b, held |-> 0, arg |-> 0, addr |-> NoAddr]
        /\ Running
        /\ UNCHANGED <<lay, proc, proj>>

\* std::construct_at(fa.element_address(i), v), unchecked: no bounds check,
\* the caller stays within the slots it asked for.
UncheckedWrite ==
    \E a \in Inst : \E i \in 0..(MaxCap - 1) : \E v \in 1..MaxVal :
        /\ kind[a] = "unchecked" /\ is_valid(Mem, a)
        /\ i < Len(elems[storage[a]])
        /\ elems' = [elems EXCEPT ![storage[a]][i + 1] = v]
        /\ UNCHANGED <<kind, storage, hdr, log, nextBlock, req>>
        /\ Did("write", a, 0, i)

\* std::construct_at(fa.element_address(i), v), checked:
\* precondition(i >= 0 && i < capacity()).
CheckedWrite ==
    \E a \in Inst : \E i \in 0..(MaxCap - 1) : \E v \in 1..MaxVal :
        /\ kind[a] = "checked" /\ checked_is_valid(Mem, a)
        /\ i >= 0 /\ i < capacity(Mem, a)
        /\ i < Len(elems[storage[a]])
        /\ elems' = [elems EXCEPT ![storage[a]][i + 1] = v]
        /\ UNCHANGED <<kind, storage, hdr, log, nextBlock, req>>
        /\ Did("write", a, 0, i)

\* Calls that only return something.
Asked(op, self, ret, arg, addr, P) ==
    /\ Running
    /\ last' = [op |-> op, self |-> self, other |-> 0, ret |-> ret,
                held |-> storage[self], arg |-> arg, addr |-> addr]
    /\ proc' = P
    /\ UNCHANGED <<kind, storage, hdr, elems, log, nextBlock, raw, lay, req,
                   proj>>

\* fa.header() on the unchecked type
UncheckedHeader ==
    \E a \in Inst :
        /\ kind[a] = "unchecked"
        /\ Asked("header", a, header(Mem, a), 0, NoAddr, proc)

\* fa.header() on the checked view
CheckedHeader ==
    \E a \in Inst :
        /\ kind[a] = "checked"
        /\ Asked("header", a, checked_header(Mem, a), 0, NoAddr, proc)

\* fa.element_address(i) on the unchecked type, any i
UncheckedElementAddress ==
    \E a \in Inst : \E i \in (-1)..MaxCap :
        /\ kind[a] = "unchecked"
        /\ Asked("unchecked_element_address", a, 0, i,
                 unchecked_element_address(Mem, a, i), proc)

\* fa.capacity() on the checked view
CheckedCapacity ==
    \E a \in Inst : \E c \in CapacityReads(Mem, a) :
        /\ kind[a] = "checked"
        /\ IF c = Crash
           THEN Asked("capacity", a, 0, 0, NoAddr,
                      [state |-> "crashed", diag |-> ""])
           ELSE Asked("capacity", a, c, 0, NoAddr, proc)

\* fa.element_address(i) on the checked view, any i
CheckedElementAddress ==
    \E a \in Inst : \E i \in (-1)..MaxCap : \E c \in CapacityReads(Mem, a) :
        /\ kind[a] = "checked"
        /\ IF c = Crash
           THEN Asked("checked_element_address", a, 0, i, NoAddr,
                      [state |-> "crashed", diag |-> ""])
           ELSE LET r == checked_element_address(Mem, a, i, c)
                IN  Asked("checked_element_address", a, 0, i, r.addr, r.proc)

\* fa.header()->cap = n: the caller changes the count the header reports.
SetHeaderCount ==
    \E a \in Inst : \E n \in 0..MaxCap :
        /\ Live(a) /\ is_valid(Mem, a)
        /\ hdr[storage[a]] # NoHeader
        /\ n <= Len(elems[storage[a]])
        /\ n # hdr[storage[a]]
        /\ hdr' = [hdr EXCEPT ![storage[a]] = n]
        /\ UNCHANGED <<kind, storage, elems, log, nextBlock, req>>
        /\ DidArg("set_header_count", a, 0, 0, n)

Next ==
    \/ ArrayCreateEmpty
    \/ UncheckedHeader
    \/ CheckedHeader
    \/ UncheckedElementAddress
    \/ CheckedCapacity
    \/ CheckedElementAddress
    \/ SetHeaderCount
    \/ UncheckedWithHeader
    \/ UncheckedWithHeaderInitializedBy
    \/ CheckedWithHeader
    \/ CheckedWithHeaderInitializedBy
    \/ UncheckedCreateEmpty
    \/ CheckedCreateEmpty
    \/ UncheckedMoveConstruct
    \/ CheckedMoveConstruct
    \/ UncheckedMoveAssign
    \/ CheckedMoveAssign
    \/ UncheckedSwap
    \/ CheckedSwap
    \/ LeakStorage
    \/ ExtractStorage
    \/ CheckedRewrap
    \/ UncheckedDestroy
    \/ CheckedDestroy
    \/ ManualCleanup
    \/ UncheckedWrite
    \/ CheckedWrite

Spec == Init /\ [][Next]_vars

\* The client around a call of project_temporary: the steps that create,
\* move, exchange, release and destroy instances, before the call, inside
\* the consumer, and after the return.
ProjectNext ==
    \/ ProjectBegin
    \/ ConstructHeader
    \/ ProjectEnd
    \/ UncheckedWithHeader
    \/ UncheckedCreateEmpty
    \/ UncheckedMoveConstruct
    \/ UncheckedMoveAssign
    \/ UncheckedSwap
    \/ LeakStorage
    \/ UncheckedDestroy
    \/ ManualCleanup

ProjectSpec == Init /\ [][ProjectNext]_vars

\* The client of checked views around a call of
\* FlexibleArrayChecked::project_temporary.
CheckedProjectNext ==
    \/ CheckedProjectBegin
    \/ ConstructHeader
    \/ CheckedProjectEnd
    \/ CheckedWithHeader
    \/ CheckedCreateEmpty
    \/ CheckedMoveConstruct
    \/ CheckedMoveAssign
    \/ CheckedSwap
    \/ CheckedWrite
    \/ CheckedDestroy

CheckedProjectSpec == Init /\ [][CheckedProjectNext]_vars

TypeOK ==
    /\ kind \in [Inst -> {"none", "unchecked", "checked"}]
    /\ storage \in [Slots -> {Null} \cup Block]
    /\ nextBlock \in 0..MaxBlocks

\* ------------------------------------------------- layout specification
\* A type is its sizeof and alignof; sizeof is a positive multiple of alignof.
Aligns == {Pow2(k) : k \in 0..MaxAlignLog}
Types == {t \in [size : 1..MaxSize, align : Aligns] : t.size % t.align = 0}

LayoutInit ==
    /\ OwnInit
    /\ lay \in {[pc |-> "start", H |-> h, E |-> e, count |-> 0, p |-> 0,
                 size |-> 0, align |-> 0, base |-> 0, got |-> 0] :
                    h \in Types, e \in Types}

\* project_temporary up to the construction of flexible_array: the scope
\* returns address p for the alloca request of storage_size + alignof(Header).
ProjectTemporaryLayout ==
    \E element_count \in 0..MaxCount : \E p \in 1..MaxAddr :
        /\ lay.pc = "start"
        /\ LET storage_size == storage_size_for(lay.H, lay.E, element_count)
           IN  lay' = [lay EXCEPT !.pc = "projected",
                                  !.count = element_count,
                                  !.p = p,
                                  !.size = storage_size,
                                  !.align = lay.H.align,
                                  !.got = alloca_request(storage_size,
                                                         lay.H.align),
                                  !.base = aligned_alloca(p, storage_size,
                                                          lay.H.align)]
        /\ UNCHANGED ownVars

\* Variant of the heap request that asks for the header's alignment only.
alloc_align_header_only(H, E) == H.align

\* The alignment with_header_initialized_by passes to Detail::aligned_alloc.
alloc_align(H, E) == Max(H.align, E.align)

\* with_header_initialized_by up to the construction of the instance: the
\* allocator returns a non-null address p that is a multiple of the
\* alignment it was asked for.
HeapLayout ==
    \E capacity0 \in 0..MaxCount : \E p \in 1..MaxAddr :
        /\ lay.pc = "start"
        /\ p % alloc_align(lay.H, lay.E) = 0
        /\ lay' = [lay EXCEPT !.pc = "heap",
                              !.count = capacity0,
                              !.p = p,
                              !.size = storage_size_for(lay.H, lay.E, capacity0),
                              !.align = alloc_align(lay.H, lay.E),
                              !.base = p]
        /\ UNCHANGED ownVars

LayoutNext == ProjectTemporaryLayout \/ HeapLayout

LayoutSpec == LayoutInit /\ [][LayoutNext]_vars

\* ------------------------------------------- storage size specification
\* The largest value of the signed Int of the word width.
IntMax == Word \div 2 - 1

\* with_header_initialized_by evaluates the arguments of
\* Detail::aligned_alloc for a capacity anywhere in the range of Int.
StorageSizeFor ==
    \E capacity0 \in 0..IntMax :
        /\ lay.pc = "start"
        /\ lay' = [lay EXCEPT !.pc = "sized",
                              !.count = capacity0,
                              !.size = storage_size_for(lay.H, lay.E, capacity0),
                              !.align = alloc_align(lay.H, lay.E)]
        /\ UNCHANGED ownVars

CapacitySpec == LayoutInit /\ [][StorageSizeFor]_vars

\* ---------------------------------------------- align_up specification
\* align_up is applied to every unsigned n of the word width and every
\* power-of-two alignment, and then to its own result.
AlignInit ==
    /\ OwnInit
    /\ lay \in {[LayIdle EXCEPT !.pc = "start", !.p = n, !.align = a] :
                    n \in 0..(Word - 1), a \in Aligns}

\* base = align_up(n, align)
AlignUp ==
    /\ lay.pc = "start"
    /\ lay' = [lay EXCEPT !.pc = "aligned",
                          !.base = align_up(lay.p, lay.align)]
    /\ UNCHANGED ownVars

\* size = align_up(base, align)
AlignUpAgain ==
    /\ lay.pc = "aligned"
    /\ lay' = [lay EXCEPT !.pc = "realigned",
                          !.size = align_up(lay.base, lay.align)]
    /\ UNCHANGED ownVars

AlignNext == AlignUp \/ AlignUpAgain

AlignSpec == AlignInit /\ [][AlignNext]_vars

\* C10 (as claimed): in storage projected by project_temporary the header
\* address is a multiple of alignof(Header) and the address of element 0 is a
\* multiple of alignof(Element), for every type pair, capacity and address
\* the scope may return.
C10_ProjectedAligned ==
    lay.pc = "projected" =>
        /\ lay.base % lay.H.align = 0
        /\ element_address(lay.base, lay.H, lay.E, 0) % lay.E.align = 0

\* ------------------------------------------------------ ownership claims
Count(lg, e) == Cardinality({k \in 1..Len(lg) : lg[k] = e})
Released == <<"destroy", "free">>
FullLife == <<"alloc", "construct", "destroy", "free">>
IsMove(l) == l.op \in {"move_ctor", "move_assign"}

\* C1: after b = move(a) with a and b distinct (move construction or move
\* assignment, unchecked or checked), a is invalid and b holds exactly the
\* block a held, so b reports the header, capacity and element contents a
\* had; if a was invalid, both are invalid afterwards.
C1_MoveTransfer ==
    [][ (IsMove(last') /\ last'.self # last'.other) =>
          LET a == last'.other
              b == last'.self
              B == storage[a]
          IN  /\ ~is_valid(Mem', a)
              /\ storage'[b] = B
              /\ is_valid(Mem', b) = is_valid(Mem, a)
              /\ B # Null => /\ capacity(Mem', b) = capacity(Mem, a)
                             /\ hdr'[B] = hdr[B]
                             /\ elems'[storage'[b]] = elems[B]
      ]_vars

C1_Witness ==
    /\ IsMove(last) /\ last.self # last.other
    /\ is_valid(Mem, last.self) /\ ~is_valid(Mem, last.other)
    /\ Len(elems[storage[last.self]]) > 0
    /\ elems[storage[last.self]][1] # 0

\* C2: without leak_storage, no header is destroyed twice, no block is freed
\* twice, no header is destroyed after its block was freed, and once every
\* instance has been destroyed each allocated block has had its header
\* constructed once, destroyed once and has been freed once, in that order.
C2_ReleasedExactlyOnce ==
    \A b \in Block :
        /\ Count(log[b], "destroy") <= 1
        /\ Count(log[b], "free") <= 1
        /\ Count(log[b], "construct") <= 1
        /\ \A j, k \in 1..Len(log[b]) :
               (log[b][j] = "free" /\ log[b][k] = "destroy") => k < j
        /\ ((\A i \in Inst : ~Live(i)) /\ b <= nextBlock /\ b \notin raw)
               => log[b] = FullLife

C2_Witness ==
    /\ \A i \in Inst : ~Live(i)
    /\ raw = {}
    /\ nextBlock >= 2
    /\ last.op = "dtor" /\ last.held # Null

\* C3: no block is held by two live instances at once, and a block handed
\* to the caller by leak_storage is held by no instance.
C3_ExclusiveOwnership ==
    /\ \A i, j \in Inst :
           (i # j /\ Live(i) /\ Live(j) /\ storage[i] # Null)
               => storage[i] # storage[j]
    /\ \A b \in raw : \A i \in Inst : storage[i] # b

C3_Witness ==
    /\ raw # {}
    /\ last.op = "swap"
    /\ \E i, j \in Inst : i # j /\ Live(i) /\ Live(j)
                          /\ storage[i] # Null /\ storage[j] = Null

\* C4: self-move-assignment changes nothing: the instance keeps its block
\* (or stays empty), header, capacity and elements are as before, and no
\* header is destroyed and no block is freed.
C4_SelfMoveNoOp ==
    [][ (last'.op = "move_assign" /\ last'.self = last'.other) =>
          UNCHANGED <<kind, storage, hdr, elems, log, nextBlock, raw, req>>
      ]_vars

C4_Witness ==
    /\ last.op = "move_assign" /\ last.self = last.other
    /\ is_valid(Mem, last.self)
    /\ kind[last.self] = "checked"

\* C5: move-assigning a distinct source into an instance that owns block B
\* destroys B's header and then frees B, once each, and touches no other
\* block; the target then holds what the source held (nothing, if the
\* source was empty).
C5_MoveAssignReleasesTarget ==
    [][ (last'.op = "move_assign" /\ last'.self # last'.other
            /\ storage[last'.self] # Null) =>
          LET B == storage[last'.self] IN
          /\ log'[B] = log[B] \o Released
          /\ \A b \in Block \ {B} : log'[b] = log[b]
          /\ storage'[last'.self] = storage[last'.other]
          /\ storage'[last'.other] = Null
      ]_vars

C5_Witness ==
    /\ last.op = "move_assign" /\ last.self # last.other
    /\ last.held # Null
    /\ log[last.held] = FullLife
    /\ ~is_valid(Mem, last.self)

\* C6: destroying an instance that owns a block destroys the header and
\* then frees the block, once each; destroying an invalid instance destroys
\* no header and frees nothing.
C6_DestroyReleases ==
    [][ last'.op = "dtor" =>
          LET B == storage[last'.self] IN
          IF B # Null
          THEN /\ log'[B] = log[B] \o Released
               /\ \A b \in Block \ {B} : log'[b] = log[b]
               /\ Count(log'[B], "destroy") = 1
               /\ Count(log'[B], "free") = 1
          ELSE log' = log /\ hdr' = hdr
      ]_vars

C6_Witness ==
    /\ last.op = "dtor"
    /\ last.held # Null
    /\ log[last.held] = FullLife
    /\ \E i \in Inst : Live(i) /\ is_valid(Mem, i)

\* C7: leak_storage returns the block the instance held (null if it held
\* none) and leaves the instance invalid without destroying a header or
\* freeing a block; afterwards only the caller's own cleanup destroys the
\* header of a leaked block or frees it.
C7_LeakHandsOver ==
    [][ /\ last'.op = "leak_storage" =>
              /\ last'.ret = storage[last'.self]
              /\ ~is_valid(Mem', last'.self)
              /\ \A i \in Inst \ {last'.self} : storage'[i] = storage[i]
              /\ UNCHANGED <<kind, hdr, elems, log, nextBlock, req>>
              /\ (~is_valid(Mem, last'.self)) =>
                     (last'.ret = Null /\ UNCHANGED <<storage, raw>>)
        /\ \A b \in raw :
              (log'[b] # log[b] \/ hdr'[b] # hdr[b]) =>
                  (last'.op = "manual_cleanup" /\ last'.ret = b)
      ]_vars

C7_Witness ==
    /\ last.op = "dtor"
    /\ raw # {}
    /\ \A b \in raw : log[b] = <<"alloc", "construct">>
    /\ \A i \in Inst : ~Live(i)

\* C8: swap exchanges the blocks of a and b (also when one of them is
\* empty) and allocates nothing, frees nothing, constructs no header and
\* destroys no header.
C8_SwapExchanges ==
    [][ last'.op = "swap" =>
          LET a == last'.self
              b == last'.other
          IN  /\ storage'[a] = storage[b]
              /\ storage'[b] = storage[a]
              /\ is_valid(Mem', a) = is_valid(Mem, b)
              /\ is_valid(Mem', b) = is_valid(Mem, a)
              /\ \A i \in Inst \ {a, b} : storage'[i] = storage[i]
              /\ UNCHANGED <<kind, hdr, elems, log, nextBlock, raw, req>>
      ]_vars

C8_Witness ==
    /\ last.op = "swap" /\ last.self # last.other
    /\ last.held # Null
    /\ ~is_valid(Mem, last.self)
    /\ is_valid(Mem, last.other)
    /\ storage[last.other] = last.held

\* C9: create_empty gives an invalid instance and allocates nothing;
\* destroying an invalid instance releases nothing, and move-constructing
\* from an invalid instance gives an invalid instance and leaves the source
\* invalid.
C9_CreateEmpty ==
    [][ /\ last'.op = "create_empty" =>
              /\ ~is_valid(Mem', last'.self)
              /\ kind'[last'.self] # "none"
              /\ UNCHANGED <<hdr, elems, log, nextBlock, raw, req>>
              /\ \A i \in Inst \ {last'.self} : storage'[i] = storage[i]
        /\ (last'.op = "dtor" /\ ~is_valid(Mem, last'.self)) =>
              UNCHANGED <<hdr, elems, log, nextBlock, raw, req>>
        /\ (last'.op = "move_ctor" /\ ~is_valid(Mem, last'.other)) =>
              /\ ~is_valid(Mem', last'.self)
              /\ ~is_valid(Mem', last'.other)
              /\ UNCHANGED <<hdr, elems, log, nextBlock, raw, req>>
      ]_vars

C9_Witness ==
    /\ last.op = "create_empty"
    /\ kind[last.self] = "checked"
    /\ ~is_valid(Mem, last.self)
    /\ nextBlock = 0

\* --------------------------------------------------------- layout claims
\* The least multiple of a that is not below n.
RoundUp(n, a) == CHOOSE m \in n..(n + a - 1) : m % a = 0
Placed == lay.pc \in {"heap", "projected"}

\* C11: for heap-backed storage the block is requested with alignment
\* max(alignof(Header), alignof(Element)), the header address is a multiple
\* of alignof(Header) and the address of element 0 is a multiple of
\* alignof(Element).
C11_HeapAligned ==
    lay.pc = "heap" =>
        /\ lay.align = Max(lay.H.align, lay.E.align)
        /\ lay.base % lay.H.align = 0
        /\ element_address(lay.base, lay.H, lay.E, 0) % lay.E.align = 0

C11_Witness ==
    /\ lay.pc = "heap"
    /\ lay.E.align > lay.H.align
    /\ lay.H.size % lay.E.align # 0
    /\ lay.count > 0

\* C12: for heap-backed and scope-backed storage alike, slot i is at
\* header address + round_up(sizeof(Header), alignof(Element))
\* + i * sizeof(Element); element 0 is at offset 12 for header size 9 and
\* element alignment 4.
C12_SlotAddressing ==
    Placed =>
        /\ elements_start(lay.base, lay.H, lay.E) - lay.base
               = RoundUp(lay.H.size, lay.E.align)
        /\ \A i \in 0..(lay.count - 1) :
               element_address(lay.base, lay.H, lay.E, i)
                   = lay.base + RoundUp(lay.H.size, lay.E.align)
                     + i * lay.E.size
        /\ \A i \in 0..(lay.count - 2) :
               element_address(lay.base, lay.H, lay.E, i + 1)
                   - element_address(lay.base, lay.H, lay.E, i) = lay.E.size
        /\ (lay.H.size = 9 /\ lay.E.align = 4) =>
               elements_offset(lay.H, lay.E) = 12

C12_Witness ==
    /\ lay.pc = "projected"
    /\ lay.H.size = 9 /\ lay.E.align = 4
    /\ lay.count >= 2
    /\ element_address(lay.base, lay.H, lay.E, 1) = lay.base + 12 + lay.E.size

C14_CheckedIndex ==
    [][ (last'.op = "checked_element_address"
            /\ is_valid(Mem, last'.self)
            /\ hdr[storage[last'.self]] # NoHeader) =>
          LET a == last'.self
              i == last'.arg
              c == hdr[storage[a]]
          IN  IF 0 <= i /\ i < c
              THEN /\ proc'.state = "running"
                   /\ last'.addr = unchecked_element_address(Mem, a, i)
                   /\ last'.addr.block = storage[a]
              ELSE /\ proc'.state = "exited"
                   /\ proc'.diag # ""
                   /\ last'.addr = NoAddr
      ]_vars

C14_Witness ==
    /\ last.op = "checked_element_address"
    /\ is_valid(Mem, last.self)
    /\ proc.state = "exited"
    /\ last.arg >= 0
    /\ last.arg < Len(elems[storage[last.self]])
    /\ hdr[storage[last.self]] = last.arg

\* C15 (as claimed): header(), element_address(i) and capacity() on an
\* instance that owns no block print a diagnostic and exit, and return
\* neither an address nor a count.
C15_InvalidUseDetected ==
    (last.op \in {"header", "unchecked_element_address", "capacity",
                  "checked_element_address"}
        /\ last.held = Null) =>
        (proc.state = "exited" /\ proc.diag # "")

\* C16 (as claimed): with_header_initialized_by, with_header (unchecked and
\* checked) and Array::create_empty called with a negative capacity print a
\* diagnostic and exit, having requested no allocation.
C16_NegativeCapacityDetected ==
    (last.op \in {"with_header", "with_header_initialized_by",
                  "array_create_empty"}
        /\ last.arg < 0) =>
        /\ proc.state = "exited"
        /\ proc.diag # ""
        /\ ~is_valid(Mem, last.self)

\* ------------------------------------------------------ projection claims
OnStack(b) == log[b] # <<>> /\ log[b][1] = "alloca"

\* C17: when the operation leaves the projected storage in place,
\* project_temporary has invoked it once, destroys the header of the
\* scope-local block exactly once after the operation returned, frees
\* nothing, and returns the operation's result.
C17_ProjectionEnds ==
    [][ (last'.op = "project_temporary"
            /\ storage[proj.slot] = proj.block) =>
          LET B == proj.block IN
          /\ proj.calls = 1
          /\ OnStack(B)
          /\ log'[B] = log[B] \o <<"destroy">>
          /\ Count(log'[B], "destroy") = 1
          /\ Count(log'[B], "free") = 0
          /\ \A b \in Block \ {B} : log'[b] = log[b]
          /\ last'.ret = last'.arg
          /\ proc' = proc
          /\ proj'.pc = "idle"
      ]_vars

C17_Witness ==
    /\ last.op = "project_temporary"
    /\ last.held # Null
    /\ log[last.held] = <<"alloca", "construct", "destroy">>
    /\ last.ret = 1
    /\ proc.state = "running"

\* C18 (as claimed): a scope-local block is never passed to the
\* allocator's free, whatever the operation does with the projected
\* storage.
C18_StackNeverFreed ==
    \A b \in Block : OnStack(b) => Count(log[b], "free") = 0

\* C19: extract_storage leaves a valid checked view invalid and hands the
\* same block to the unchecked result without touching the allocator or
\* the header; wrapping the result again gives a view with the same block,
\* header, elements, capacity and element addresses as the original.
C19_ExtractRoundTrip ==
    [][ (last'.op \in {"extract_storage", "rewrap"}
            /\ is_valid(Mem, last'.other)) =>
          LET a == last'.other
              r == last'.self
              B == storage[a]
              M == [storage |-> storage', hdr |-> hdr', elems |-> elems',
                    log |-> log', nextBlock |-> nextBlock', req |-> req']
          IN  /\ ~is_valid(M, a)
              /\ kind'[a] = "checked"
              /\ storage'[r] = B
              /\ kind'[r] = IF last'.op = "rewrap" THEN "checked"
                                                   ELSE "unchecked"
              /\ \A x \in Inst \ {a, r} : storage'[x] = storage[x]
              /\ log' = log /\ hdr' = hdr /\ elems' = elems
              /\ nextBlock' = nextBlock /\ req' = req
              /\ last'.op = "rewrap" =>
                    /\ checked_is_valid(M, r)
                    /\ checked_header(M, r) = checked_header(Mem, a)
                    /\ M.hdr[checked_header(M, r)] = hdr[B]
                    /\ M.elems[storage'[r]] = elems[B]
                    /\ hdr[B] # NoHeader =>
                          /\ capacity(M, r) = capacity(Mem, a)
                          /\ \A i \in (-1)..MaxCap :
                               checked_element_address(M, r, i,
                                                       capacity(M, r))
                               = checked_element_address(Mem, a, i,
                                                       capacity(Mem, a))
      ]_vars

C19_Witness ==
    /\ last.op = "rewrap"
    /\ kind[last.other] = "checked" /\ ~is_valid(Mem, last.other)
    /\ kind[last.self] = "checked" /\ is_valid(Mem, last.self)
    /\ hdr[storage[last.self]] = 1
    /\ elems[storage[last.self]] = <<1>>
    /\ log[storage[last.self]] = <<"alloc", "construct">>

\* C20: with_header(0, header) and with_header_initialized_by(0, init)
\* allocate a block of storage_size_for(0) > 0 bytes and construct the
\* header in it: the instance is valid, its header is not null, the
\* capacity read from the header is 0, and the checked element_address
\* accepts no index.
C20_ZeroCapacity ==
    [][ (last'.op \in {"with_header", "with_header_initialized_by"}
            /\ last'.arg = 0) =>
          LET a == last'.self
              B == nextBlock + 1
              M == [storage |-> storage', hdr |-> hdr', elems |-> elems',
                    log |-> log', nextBlock |-> nextBlock', req |-> req']
          IN  /\ storage'[a] = B
              /\ nextBlock' = B
              /\ log'[B] = <<"alloc", "construct">>
              /\ req'[B].size = storage_size_for(H0, E0, 0)
              /\ req'[B].size > 0
              /\ req'[B].size >= H0.size
              /\ is_valid(M, a)
              /\ header(M, a) # Null
              /\ hdr'[header(M, a)] # NoHeader
              /\ capacity(M, a) = 0
              /\ elems'[B] = <<>>
              /\ \A i \in (-1)..(MaxCap + 1) :
                    LET R == checked_element_address(M, a, i, capacity(M, a))
                    IN  R.proc.state = "exited" /\ R.addr = NoAddr
      ]_vars

C20_Witness ==
    /\ last.op = "with_header"
    /\ last.arg = 0
    /\ kind[last.self] = "checked"
    /\ is_valid(Mem, last.self)
    /\ log[storage[last.self]] = <<"alloc", "construct">>
    /\ elems[storage[last.self]] = <<>>
    /\ capacity(Mem, last.self) = 0
    /\ req[storage[last.self]].size = H0.size

\* ------------------------------------------------------ creation claims
IsCreation(l) == l.op \in {"with_header", "with_header_initialized_by"}
MovesBlock(l) ==
    l.op \in {"move_ctor", "move_assign", "swap", "extract_storage", "rewrap"}

\* C21: with_header_initialized_by and with_header request exactly one
\* block, of storage_size_for(capacity) bytes, run the header initializer
\* exactly once at the base address of that block, and return an instance
\* owning the block; every instance that holds a block holds one whose
\* header has been constructed, and moving a block between instances
\* constructs and destroys no header in it.
C21_CreationOrder ==
    [][ /\ IsCreation(last') =>
              LET a == last'.self
                  B == nextBlock + 1
              IN  /\ nextBlock' = B
                  /\ req'[B] = [size |-> storage_size_for(H0, E0, last'.arg),
                                align |-> Max(H0.align, E0.align)]
                  /\ log'[B] = <<"alloc", "construct">>
                  /\ storage'[a] = B
                  /\ header(Mem', a) = B
                  /\ hdr'[B] # NoHeader
                  /\ storage'[Tmp] = Null
                  /\ \A b \in Block \ {B} : log'[b] = log[b] /\ hdr'[b] = hdr[b]
        /\ (MovesBlock(last') /\ last'.self # last'.other
                /\ storage[last'.other] # Null) =>
              LET B == storage[last'.other]
              IN  log'[B] = log[B] /\ hdr'[B] = hdr[B]
        /\ \A i \in Inst :
              (kind'[i] # "none" /\ storage'[i] # Null) =>
                  /\ Len(log'[storage'[i]]) = 2
                  /\ log'[storage'[i]] = <<"alloc", "construct">>
      ]_vars

C21_Witness ==
    /\ last.op = "with_header_initialized_by"
    /\ last.arg = 1
    /\ kind[last.self] = "unchecked"
    /\ log[storage[last.self]] = <<"alloc", "construct">>
    /\ req[storage[last.self]] = [size |-> 16, align |-> 8]
    /\ hdr[storage[last.self]] = 1
    /\ nextBlock = 2

\* C22: FlexibleArrayChecked::project_temporary hands the consumer a valid
\* checked view over the scope-local block; when the consumer leaves the
\* view in place, the block is moved back into the projected unchecked
\* storage, the view is destroyed while invalid, the header is destroyed
\* exactly once, nothing is freed, and the consumer's result is returned.
C22_CheckedProjection ==
    [][ /\ last'.op = "checked_project_begin" =>
              LET c == last'.self
                  B == nextBlock + 1
              IN  /\ kind'[c] = "checked"
                  /\ checked_is_valid(Mem', c)
                  /\ storage'[c] = B
                  /\ storage'[ProjLocal] = Null
                  /\ log'[B] = <<"alloca">>
                  /\ req'[B].size = storage_size_for(H0, E0, last'.arg)
                                        + H0.align
                  /\ proj'.block = B /\ proj'.slot = c
                  /\ \A b \in Block \ {B} : log'[b] = log[b]
        /\ (last'.op = "checked_project_temporary"
                /\ storage[proj.slot] = proj.block) =>
              LET c == proj.slot
                  B == proj.block
                  R == checked_project_restore(Mem, ProjLocal, c)
              IN  /\ proj.calls = 1
                  /\ OnStack(B)
                  /\ R.storage[ProjLocal] = B
                  /\ ~checked_is_valid(R, c)
                  /\ R.log = log /\ R.hdr = hdr
                  /\ checked_dtor(R, c) = R
                  /\ log'[B] = log[B] \o <<"destroy">>
                  /\ Count(log'[B], "destroy") = 1
                  /\ Count(log'[B], "free") = 0
                  /\ \A b \in Block \ {B} : log'[b] = log[b]
                  /\ storage'[ProjLocal] = Null /\ storage'[c] = Null
                  /\ kind'[c] = "none"
                  /\ last'.ret = last'.arg
                  /\ proc' = proc
      ]_vars

C22_Witness ==
    /\ last.op = "checked_project_temporary"
    /\ last.held # Null
    /\ log[last.held] = <<"alloca", "construct", "destroy">>
    /\ elems[last.held] = <<1>>
    /\ last.ret = 1
    /\ proc.state = "running"

\* ------------------------------------------------------ arithmetic claims
\* C23: for every unsigned n and power-of-two align with n + align - 1 not
\* overflowing, align_up(n, align) is the least multiple of align that is
\* not below n, so n <= align_up(n, align) < n + align, and applying
\* align_up to the result returns the result.
C23_AlignUp ==
    (lay.pc \in {"aligned", "realigned"} /\ lay.p + lay.align - 1 < Word) =>
        /\ lay.base % lay.align = 0
        /\ lay.p <= lay.base
        /\ lay.base < lay.p + lay.align
        /\ \A m \in lay.p..(lay.base - 1) : m % lay.align # 0
        /\ lay.base = RoundUp(lay.p, lay.align)
        /\ lay.pc = "realigned" => lay.size = lay.base

C23_Witness ==
    /\ lay.pc = "realigned"
    /\ lay.p = 13 /\ lay.align = 8
    /\ lay.base = 16 /\ lay.size = 16

\* C24 (as claimed): for every type pair and every capacity >= 0 the
\* element slots start at or after the end of the header and the first and
\* the last slot, hence all of them, end within storage_size_for(capacity)
\* bytes.
C24_SlotsInsideBlock ==
    lay.pc = "sized" =>
        /\ elements_offset(lay.H, lay.E) >= lay.H.size
        /\ \A i \in {0, lay.count - 1} \cap (0..(lay.count - 1)) :
              /\ elements_offset(lay.H, lay.E) + i * lay.E.size >= lay.H.size
              /\ elements_offset(lay.H, lay.E) + (i + 1) * lay.E.size
                    <= lay.size

\* C25: for types whose size is a multiple of their alignment and every
\* capacity >= 0, the size passed to the allocator is a multiple of the
\* alignment passed with it, max(alignof(Header), alignof(Element)).
C25_SizeMultipleOfAlignment ==
    lay.pc = "sized" =>
        /\ lay.align = Max(lay.H.align, lay.E.align)
        /\ lay.size = storage_size_for(lay.H, lay.E, lay.count)
        /\ lay.size % lay.align = 0

C25_Witness ==
    /\ lay.pc = "sized"
    /\ lay.H = [size |-> 4, align |-> 4]
    /\ lay.E = [size |-> 8, align |-> 8]
    /\ lay.count = 3
    /\ lay.size = 32
    /\ lay.align = 8

====
